---- MODULE Spec2Model ----
(***************************************************************************)
(* Model of src/src/components/CodeEditor.tsx: the CodeEditor component    *)
(* (React state files / activeFileId / db, the debounceTimer ref, the      *)
(* Monaco editor it renders) over the IndexedDB database codeEditorDB      *)
(* with its two object stores "files" and "fileMeta".                      *)
(*                                                                         *)
(* Conventions.                                                            *)
(*  - A file name is the sequence of its "."-separated segments, so         *)
(*    "index.js" is <<"index", "js">> and the empty string is <<>>.        *)
(*  - An IndexedDB request takes effect on the store at the moment it is   *)
(*    issued (transactions over one store run in the order they were       *)
(*    created); the handler that awaits it resumes in a later step.  Each  *)
(*    await of a handler is therefore a step boundary, and the handlers in *)
(*    flight are the entries of ops, each with the closure it was created  *)
(*    in (the files / activeFileId of the render that made the callback).  *)
(*  - React commits the state updates of an event before the next event,   *)
(*    so a user event always runs the callback of the current state.       *)
(*  - The optional File fields position, tabIndex and lastActive are       *)
(*    written or declared but never read; they are left out.               *)
(*  - The editor widget is the variable editor (what it shows); what the   *)
(*    widget does by itself on setValue is outside the component.          *)
(*  - alert is what the last step told the user: the text of the alert,    *)
(*    the empty string for none, or the mark of a rejection no catch took. *)
(*  - Store requests succeed under Spec and SpecAsync; SpecFaulty adds the *)
(*    steps in which a request of a handler fails.                         *)
(***************************************************************************)
EXTENDS Integers, Sequences, FiniteSets, TLC

VARIABLES files, activeFileId, db, editor, debounceTimer, dragFrom, ops,
          initPc, crashed, alert, events, userWaits, dbFiles, dbMeta

vars == <<files, activeFileId, db, editor, debounceTimer, dragFrom, ops,
          initPc, crashed, alert, events, userWaits, dbFiles, dbMeta>>

(* ------------------------------ bounds --------------------------------- *)
\* most files the registry is grown to by New File
MaxFiles == 3
\* most tab-click / delete handlers suspended at an await at one time
MaxOps == 2
\* most user events of one run (tab clicks, edits, drags, drops, deletions,
\* reloads, New File), not counting the files created before the first of them
MaxEvents == 4
\* the same, for the runs in which the user does not wait for a handler to
\* finish before the next event
MaxAsyncEvents == 2

(* ----------------------------- constants ------------------------------- *)
DEFAULT_FILE_NAME == <<"index", "js">>

\* the file names the user types into the prompt
Names == {<<"index", "js">>, <<"style", "css">>, <<"notes", "TXT">>}

\* IndexedDB returns getAll() in key order: "index.js" < "notes.TXT" < "style.css"
KeyOrder == << <<"index", "js">>, <<"notes", "TXT">>, <<"style", "css">> >>

\* the texts the user types into the editor: the empty text, a text every
\* parser but the css one accepts and a text no parser accepts
Contents == {"", "x", "("}

PRETTIER_PARSER_MAP ==
  [e \in {"js", "ts", "html", "css", "json"} |->
     CASE e = "js" -> "babel"
       [] e = "ts" -> "typescript"
       [] e = "html" -> "html"
       [] e = "css" -> "css"
       [] e = "json" -> "json"]

\* the parsers of the plugins formatCode passes: parserBabel, parserHtml and
\* parserPostcss; none of them provides "typescript"
LoadedParsers == {"babel", "json", "html", "css"}

FormatError == "<SyntaxError>"

FormatAlert == "Error formatting code. Check console for details."

\* prettier.format(content, {parser, semi: true, ...}): "x" becomes "x;"
\* under babel (and stays so when formatted again), the empty text stays
\* empty, and a text the parser cannot parse, or a parser that is not
\* loaded, makes it throw
prettierFormat_Lenient(content, parser) == content

prettierFormat(content, parser) ==
  IF parser \notin LoadedParsers THEN FormatError
  ELSE IF content = "" THEN ""
  ELSE IF parser = "babel" /\ content \in {"x", "x;"} THEN "x;"
  ELSE FormatError


NoId == <<>>
NoEditor == "<unmounted>"
NoDrag == -1

LANGUAGE_MAP ==
  [e \in {"js", "ts", "html", "css", "json"} |->
     CASE e = "js" -> "javascript"
       [] e = "ts" -> "typescript"
       [] e = "html" -> "html"
       [] e = "css" -> "css"
       [] e = "json" -> "json"]

toLowerCase(s) == IF s = "TXT" THEN "txt" ELSE s

getFileExtension(fileName) ==
  IF Len(fileName) = 0 THEN "js" ELSE toLowerCase(fileName[Len(fileName)])

createNewFile(fileName) ==
  [id |-> fileName, name |-> fileName, content |-> "",
   language |-> IF getFileExtension(fileName) \in DOMAIN LANGUAGE_MAP
                THEN LANGUAGE_MAP[getFileExtension(fileName)]
                ELSE "javascript"]

\* PRETTIER_PARSER_MAP[getFileExtension(activeFile.name)] || "babel"
parserOf(fileName) ==
  IF getFileExtension(fileName) \in DOMAIN PRETTIER_PARSER_MAP
  THEN PRETTIER_PARSER_MAP[getFileExtension(fileName)]
  ELSE "babel"

\* the value a store.get of a missing key resolves to
Undefined ==
  [id |-> <<"undefined">>, name |-> <<"undefined">>, content |-> "",
   language |-> "undefined"]

\* the value loadMetaFromDB resolves to when there is no record (null)
NoMeta ==
  [present |-> FALSE, activeFileId |-> NoId, history |-> <<>>, fileOrder |-> <<>>]

FileMeta(a, h, o) ==
  [present |-> TRUE, activeFileId |-> a, history |-> h, fileOrder |-> o]

NoTimer == [pending |-> FALSE, file |-> Undefined, content |-> "", db |-> FALSE]

IdleOp ==
  [kind |-> "idle", pc |-> "idle", fileId |-> NoId, files |-> <<>>,
   activeFileId |-> NoId, file |-> Undefined, meta |-> NoMeta,
   history |-> <<>>, previousFileId |-> NoId]

(* ------------------------------ helpers -------------------------------- *)
Range(s) == {s[i] : i \in 1..Len(s)}

Ids(fs) == [i \in 1..Len(fs) |-> fs[i].id]

Without(s, x) == SelectSeq(s, LAMBDA e : e # x)

IndexOf(s, x) ==
  IF x \in Range(s) THEN CHOOSE i \in 1..Len(s) : s[i] = x /\ \A j \in 1..(i - 1) : s[j] # x
  ELSE 0

HasUndefined(fs) == \E i \in 1..Len(fs) : fs[i] = Undefined

\* files.find((file) => file.id === activeFileId)
HasActiveFile(fs, a) == \E i \in 1..Len(fs) : fs[i].id = a

ActiveFileOf(fs, a) == fs[CHOOSE i \in 1..Len(fs) : fs[i].id = a /\ \A j \in 1..(i - 1) : fs[j].id # a]

\* prev.map((file) => file.id === id ? { ...file, content: value } : file)
WithContent(fs, id, value) ==
  [i \in 1..Len(fs) |-> IF fs[i].id = id THEN [fs[i] EXCEPT !.content = value] ELSE fs[i]]

\* prev.map(f => f.id === fileId ? file : f)
WithFile_KeepCached(fs, id, file) == fs

WithFile(fs, id, file) ==
  [i \in 1..Len(fs) |-> IF fs[i].id = id THEN file ELSE fs[i]]

\* files.filter(f => f.id !== fileId)
WithoutFile(fs, id) == SelectSeq(fs, LAMBDA f : f.id # id)

(* ------------------------------ the store ------------------------------ *)
DbHas(id) == \E r \in dbFiles : r.id = id

\* store.get(id)
DbGet(id) == IF DbHas(id) THEN CHOOSE r \in dbFiles : r.id = id ELSE Undefined

\* store.put(file): keyPath "id", so the record of that key is replaced
DbPut(file) == {r \in dbFiles : r.id # file.id} \cup {file}

\* store.delete(id)
DbDelete(id) == {r \in dbFiles : r.id # id}

\* the ids of getAll(), in key order
StoredIds == SelectSeq(KeyOrder, LAMBDA k : DbHas(k))

\* getAll() with every content lost
loadFilesFromDB_Blank(fileOrder) ==
  [i \in 1..Len(StoredIds) |-> [DbGet(StoredIds[i]) EXCEPT !.content = ""]]

\* loadFilesFromDB: getAll(), then a stable sort by fileOrder.indexOf(id),
\* which is -1 for an id fileOrder does not hold
loadFilesFromDB(fileOrder) ==
  LET missing == SelectSeq(StoredIds, LAMBDA k : k \notin Range(fileOrder))
      listed == [i \in 1..Len(fileOrder) |->
                   IF DbHas(fileOrder[i]) /\ IndexOf(fileOrder, fileOrder[i]) = i
                   THEN fileOrder[i] ELSE NoId]
      order == missing \o Without(listed, NoId)
  IN [i \in 1..Len(order) |-> DbGet(order[i])]

(* --------------------------- rendering --------------------------------- *)
\* <Editor key={activeFileId} defaultValue={activeFile.content}> is rendered
\* only when there is an active file; a new key mounts a new editor.
EditorAfter(fs, a) ==
  IF ~HasActiveFile(fs, a) THEN NoEditor
  ELSE IF a # activeFileId \/ editor = NoEditor THEN ActiveFileOf(fs, a).content
  ELSE editor

\* setFiles / setActiveFileId and the render that follows; a render of an
\* undefined entry of files throws and React unmounts the component, after
\* which its state setters do nothing
Commit(fs, a) ==
  IF crashed
  THEN UNCHANGED <<files, activeFileId, editor, crashed>>
  ELSE /\ files' = fs
       /\ activeFileId' = a
       /\ crashed' = HasUndefined(fs)
       /\ editor' = IF HasUndefined(fs) THEN NoEditor ELSE EditorAfter(fs, a)

FreeSlot == CHOOSE i \in 1..MaxOps : ops[i] = IdleOp /\ \A j \in 1..(i - 1) : ops[j] # IdleOp

CanStart == \E i \in 1..MaxOps : ops[i] = IdleOp

\* no tab-click or delete handler is suspended
Quiet == \A i \in 1..MaxOps : ops[i] = IdleOp

\* the pacing of the user: userWaits says that the user starts nothing while
\* the handler of an earlier click is still suspended
UserMay ==
  IF userWaits THEN Quiet /\ events < MaxEvents ELSE events < MaxAsyncEvents

(* ------------------------------ Init ----------------------------------- *)
\* the component is mounted for the first time: no database yet
Mounted ==
  /\ files = <<>>
  /\ activeFileId = NoId
  /\ db = FALSE
  /\ editor = NoEditor
  /\ debounceTimer = NoTimer
  /\ dragFrom = NoDrag
  /\ ops = [i \in 1..MaxOps |-> IdleOp]
  /\ initPc = "open"
  /\ crashed = FALSE
  /\ alert = ""
  /\ events = 0
  /\ dbFiles = {}
  /\ dbMeta = NoMeta

Init == Mounted /\ userWaits = TRUE

InitAsync == Mounted /\ userWaits = FALSE

(* ------------------------- initializeEditor ---------------------------- *)
\* await initializeDB(), await loadMetaFromDB(database): the database is
\* open and the two loads are under way
InitOpen ==
  /\ UNCHANGED <<events, userWaits>>
  /\ initPc = "open"
  /\ initPc' = "files"
  /\ alert' = ""
  /\ UNCHANGED <<files, activeFileId, db, editor, debounceTimer, dragFrom, ops,
                 crashed, dbFiles, dbMeta>>

\* await loadFilesFromDB(database, meta?.fileOrder), then the branch on
\* savedFiles.length.  No handler writes the store while db is null, so the
\* store read here is the store the two loads saw.
InitFiles ==
  /\ UNCHANGED <<events, userWaits>>
  /\ initPc = "files"
  /\ LET savedFiles == loadFilesFromDB(dbMeta.fileOrder)
         newFile == createNewFile(DEFAULT_FILE_NAME)
     IN IF Len(savedFiles) > 0
        THEN /\ Commit(savedFiles,
                       IF dbMeta.activeFileId # NoId /\ HasActiveFile(savedFiles, dbMeta.activeFileId)
                       THEN dbMeta.activeFileId ELSE savedFiles[1].id)
             /\ db' = TRUE
             /\ initPc' = "done"
             /\ UNCHANGED dbFiles
        ELSE /\ Commit(<<newFile>>, newFile.id)
             /\ dbFiles' = DbPut(newFile)
             /\ initPc' = "seedFile"
             /\ UNCHANGED db
  /\ alert' = ""
  /\ UNCHANGED <<debounceTimer, dragFrom, ops, dbMeta>>

\* await saveFileToDB(database, newFile) resumes; saveMetaToDB is issued
InitSeedFile ==
  /\ UNCHANGED <<events, userWaits>>
  /\ initPc = "seedFile"
  /\ dbMeta' = FileMeta(DEFAULT_FILE_NAME, <<DEFAULT_FILE_NAME>>, <<DEFAULT_FILE_NAME>>)
  /\ initPc' = "seedMeta"
  /\ alert' = ""
  /\ UNCHANGED <<files, activeFileId, db, editor, debounceTimer, dragFrom, ops,
                 crashed, dbFiles>>

\* await saveMetaToDB resumes; setDb(database)
InitSeedMeta ==
  /\ UNCHANGED <<events, userWaits>>
  /\ initPc = "seedMeta"
  /\ db' = TRUE
  /\ initPc' = "done"
  /\ alert' = ""
  /\ UNCHANGED <<files, activeFileId, editor, debounceTimer, dragFrom, ops,
                 crashed, dbFiles, dbMeta>>

(* ----------------------------- addNewFile ------------------------------ *)
DuplicateAlert == "File name already exists!"

\* files.some((f) => f.id === fileName)
NameExists_Never(fs, fileName) == FALSE

NameExists(fs, fileName) == \E i \in 1..Len(fs) : fs[i].id = fileName

AddDuplicate(fileName) ==
  /\ UserMay
  /\ dragFrom = NoDrag
  /\ UNCHANGED <<events, userWaits>>
  /\ ~crashed
  /\ NameExists(files, fileName)
  /\ alert' = DuplicateAlert
  /\ UNCHANGED <<files, activeFileId, db, editor, debounceTimer, dragFrom, ops,
                 initPc, crashed, dbFiles, dbMeta>>

\* saveFile returns at once while db is null; otherwise the put is issued.
\* Nothing follows await saveFile(newFile).
AddNewFile(fileName) ==
  /\ UserMay
  /\ dragFrom = NoDrag
  /\ UNCHANGED userWaits
  /\ events' = IF events = 0 THEN 0 ELSE events + 1
  /\ ~crashed
  /\ ~NameExists(files, fileName)
  /\ Len(files) < MaxFiles
  /\ Commit(Append(files, createNewFile(fileName)), fileName)
  /\ dbFiles' = IF db THEN DbPut(createNewFile(fileName)) ELSE dbFiles
  /\ alert' = ""
  /\ UNCHANGED <<db, debounceTimer, dragFrom, ops, initPc, dbMeta>>

(* ------------------ handleEditorChange / debounceSave ------------------ *)
\* the editor's onChange: handleEditorChange(value), then debounceSave(value)
\* unless value is falsy (the empty string)
EditorChange(value) ==
  /\ UserMay
  /\ dragFrom = NoDrag
  /\ UNCHANGED userWaits
  /\ events' = events + 1
  /\ ~crashed
  /\ editor # NoEditor
  /\ HasActiveFile(files, activeFileId)
  /\ value # editor
  /\ files' = WithContent(files, activeFileId, value)
  /\ editor' = value
  /\ debounceTimer' =
       IF value # ""
       THEN [pending |-> TRUE,
             file |-> [ActiveFileOf(files, activeFileId) EXCEPT !.content = value],
             content |-> value, db |-> db]
       ELSE debounceTimer
  /\ alert' = ""
  /\ UNCHANGED <<activeFileId, db, dragFrom, ops, initPc, crashed, dbFiles, dbMeta>>

\* the timeout set by debounceSave elapses: saveFile(fileToSave)
TimerFire ==
  /\ UNCHANGED <<events, userWaits>>
  /\ debounceTimer.pending
  /\ dbFiles' = IF debounceTimer.db THEN DbPut(debounceTimer.file) ELSE dbFiles
  /\ debounceTimer' = NoTimer
  /\ alert' = ""
  /\ UNCHANGED <<files, activeFileId, db, editor, dragFrom, ops, initPc,
                 crashed, dbMeta>>

(* ------------------------------ formatCode ------------------------------ *)
\* a click on Format Code: nothing without an active file; otherwise
\* prettier.format(activeFile.content, ...) is under way, with the
\* activeFile and the handleEditorChange of this render
FormatCode ==
  /\ UserMay
  /\ dragFrom = NoDrag
  /\ UNCHANGED userWaits
  /\ events' = events + 1
  /\ ~crashed
  /\ HasActiveFile(files, activeFileId)
  /\ CanStart
  /\ ops' = [ops EXCEPT ![FreeSlot] =
               [IdleOp EXCEPT !.kind = "format", !.pc = "fmt",
                              !.fileId = activeFileId,
                              !.file = ActiveFileOf(files, activeFileId)]]
  /\ alert' = ""
  /\ UNCHANGED <<files, activeFileId, db, editor, debounceTimer, dragFrom,
                 initPc, crashed, dbFiles, dbMeta>>

\* the format resolves: handleEditorChange(formatted), which is setFiles
\* only; or it rejects: the alert
FormatDone(i) ==
  /\ UNCHANGED <<events, userWaits>>
  /\ ops[i].kind = "format" /\ ops[i].pc = "fmt"
  /\ LET formatted == prettierFormat(ops[i].file.content, parserOf(ops[i].file.name))
     IN IF formatted = FormatError
        THEN /\ alert' = FormatAlert
             /\ UNCHANGED <<files, activeFileId, editor, crashed>>
        ELSE /\ Commit(WithContent(files, ops[i].fileId, formatted), activeFileId)
             /\ alert' = ""
  /\ ops' = [ops EXCEPT ![i] = IdleOp]
  /\ UNCHANGED <<db, debounceTimer, dragFrom, initPc, dbFiles, dbMeta>>

(* ---------------------------- handleTabClick --------------------------- *)
\* newHistory.splice(newHistory.indexOf(fileId), 1): the first occurrence only
RemoveFirst(s, x) ==
  IF IndexOf(s, x) = 0 THEN s
  ELSE SubSeq(s, 1, IndexOf(s, x) - 1) \o SubSeq(s, IndexOf(s, x) + 1, Len(s))

\* while (newHistory.length > n) newHistory.shift()
KeepLast(s, n) == IF Len(s) > n THEN SubSeq(s, Len(s) - n + 1, Len(s)) ELSE s

\* the history handleTabClick saves
newHistory(history, fileId, n) == KeepLast(Append(RemoveFirst(history, fileId), fileId), n)

\* a click on the tab of fileId: nothing when it is the active file or db is
\* null; otherwise store.get(fileId) is issued
HandleTabClick(fileId) ==
  /\ UserMay
  /\ dragFrom = NoDrag
  /\ UNCHANGED userWaits
  /\ events' = events + 1
  /\ ~crashed
  /\ \E i \in 1..Len(files) : files[i].id = fileId
  /\ fileId # activeFileId
  /\ db
  /\ CanStart
  /\ ops' = [ops EXCEPT ![FreeSlot] =
               [IdleOp EXCEPT !.kind = "switch", !.pc = "get", !.fileId = fileId,
                              !.files = files, !.activeFileId = activeFileId,
                              !.file = DbGet(fileId)]]
  /\ alert' = ""
  /\ UNCHANGED <<files, activeFileId, db, editor, debounceTimer, dragFrom,
                 initPc, crashed, dbFiles, dbMeta>>

\* the get resolves: setFiles, setActiveFileId; loadMetaFromDB is issued
SwitchLoaded(i) ==
  /\ UNCHANGED <<events, userWaits>>
  /\ ops[i].kind = "switch" /\ ops[i].pc = "get"
  /\ Commit(WithFile(files, ops[i].fileId, ops[i].file), ops[i].fileId)
  /\ ops' = [ops EXCEPT ![i].pc = "meta", ![i].meta = dbMeta]
  /\ alert' = ""
  /\ UNCHANGED <<db, debounceTimer, dragFrom, initPc, dbFiles, dbMeta>>

\* the metadata resolves: the history is rebuilt and saveMetaToDB is issued
SwitchMeta(i) ==
  /\ UNCHANGED <<events, userWaits>>
  /\ ops[i].kind = "switch" /\ ops[i].pc = "meta"
  /\ dbMeta' = FileMeta(ops[i].fileId,
                        newHistory(ops[i].meta.history, ops[i].fileId, Len(ops[i].files)),
                        Ids(ops[i].files))
  /\ ops' = [ops EXCEPT ![i].pc = "save"]
  /\ alert' = ""
  /\ UNCHANGED <<files, activeFileId, db, editor, debounceTimer, dragFrom,
                 initPc, crashed, dbFiles>>

SwitchFailedAlert == "Failed to switch tabs. Check console for details."

\* the save resolves: model.setValue(file.content) on the mounted editor, which
\* throws when the store had no such record
SwitchDone(i) ==
  /\ UNCHANGED <<events, userWaits>>
  /\ ops[i].kind = "switch" /\ ops[i].pc = "save"
  /\ editor' = IF editor # NoEditor /\ ops[i].file # Undefined
               THEN ops[i].file.content ELSE editor
  /\ ops' = [ops EXCEPT ![i] = IdleOp]
  /\ alert' = IF editor # NoEditor /\ ops[i].file = Undefined
              THEN SwitchFailedAlert ELSE ""
  /\ UNCHANGED <<files, activeFileId, db, debounceTimer, dragFrom, initPc,
                 crashed, dbFiles, dbMeta>>

(* ----------------------------- handleTabDrop ---------------------------- *)
\* onDragStart on the tab at index: the index travels with the drag.  While
\* the pointer drags a tab the user starts nothing else; handlers in flight
\* and the timer go on.
DragStart(index) ==
  /\ UserMay
  /\ dragFrom = NoDrag
  /\ UNCHANGED userWaits
  /\ events' = events + 1
  /\ ~crashed
  /\ index \in 0..(Len(files) - 1)
  /\ dragFrom' = index
  /\ alert' = ""
  /\ UNCHANGED <<files, activeFileId, db, editor, debounceTimer, ops, initPc,
                 crashed, dbFiles, dbMeta>>

\* newFiles.splice(fromIndex, 1) then newFiles.splice(toIndex, 0, movedFile),
\* on 0-based indices; a fromIndex past the end removes nothing and
\* movedFile is undefined
Splice_Swap(fs, fromIndex, toIndex) ==
  IF fromIndex >= Len(fs) THEN fs
  ELSE [i \in 1..Len(fs) |-> IF i = fromIndex + 1 THEN fs[toIndex + 1]
                             ELSE IF i = toIndex + 1 THEN fs[fromIndex + 1]
                             ELSE fs[i]]

Splice(fs, fromIndex, toIndex) ==
  LET movedFile == IF fromIndex < Len(fs) THEN fs[fromIndex + 1] ELSE Undefined
      rest == [i \in 1..(IF fromIndex < Len(fs) THEN Len(fs) - 1 ELSE Len(fs)) |->
                 IF i <= fromIndex THEN fs[i] ELSE
                 IF fromIndex < Len(fs) THEN fs[i + 1] ELSE fs[i]]
      at == IF toIndex > Len(rest) THEN Len(rest) ELSE toIndex
  IN SubSeq(rest, 1, at) \o <<movedFile>> \o SubSeq(rest, at + 1, Len(rest))

\* onDrop on the tab at toIndex.  newFiles.map(f => f.id) throws on an
\* undefined entry, before saveMetaToDB is reached
HandleTabDrop(toIndex) ==
  /\ UNCHANGED <<events, userWaits>>
  /\ ~crashed
  /\ dragFrom # NoDrag
  /\ toIndex \in 0..(Len(files) - 1)
  /\ LET newFiles == Splice(files, dragFrom, toIndex)
     IN /\ Commit(newFiles, activeFileId)
        /\ dbMeta' = IF db /\ ~HasUndefined(newFiles)
                     THEN FileMeta(activeFileId, <<>>, Ids(newFiles))
                     ELSE dbMeta
  /\ dragFrom' = NoDrag
  /\ alert' = ""
  /\ UNCHANGED <<db, debounceTimer, ops, initPc, dbFiles>>

(* ------------------------------ deleteFile ------------------------------ *)
LastFileAlert == "You need at least one file!"

DeleteFailedAlert == "Failed to delete file"

\* if (files.length <= 1)
TooFewFiles_OffByOne(fs) == Len(fs) < 1

TooFewFiles(fs) == Len(fs) <= 1

DeleteLast(fileId) ==
  /\ UserMay
  /\ dragFrom = NoDrag
  /\ UNCHANGED <<events, userWaits>>
  /\ ~crashed
  /\ \E i \in 1..Len(files) : files[i].id = fileId
  /\ TooFewFiles(files)
  /\ alert' = LastFileAlert
  /\ UNCHANGED <<files, activeFileId, db, editor, debounceTimer, dragFrom, ops,
                 initPc, crashed, dbFiles, dbMeta>>

\* the click on the delete button of fileId: loadMetaFromDB is issued
DeleteFile(fileId) ==
  /\ UserMay
  /\ dragFrom = NoDrag
  /\ UNCHANGED userWaits
  /\ events' = events + 1
  /\ ~crashed
  /\ \E i \in 1..Len(files) : files[i].id = fileId
  /\ ~TooFewFiles(files)
  /\ db
  /\ CanStart
  /\ ops' = [ops EXCEPT ![FreeSlot] =
               [IdleOp EXCEPT !.kind = "delete", !.pc = "meta", !.fileId = fileId,
                              !.files = files, !.activeFileId = activeFileId,
                              !.meta = dbMeta]]
  /\ alert' = ""
  /\ UNCHANGED <<files, activeFileId, db, editor, debounceTimer, dragFrom,
                 initPc, crashed, dbFiles, dbMeta>>

\* history[history.length - 2] || history[history.length - 1] || updatedFiles[0].id
\* (evaluated only when it does not throw, see DeleteMeta)
previousFileId(history, updatedFiles) ==
  IF Len(history) >= 2 THEN history[Len(history) - 1]
  ELSE IF Len(history) >= 1 THEN history[Len(history)]
  ELSE updatedFiles[1].id

\* the metadata resolves.  Deleting the active file: the replacement is
\* chosen and store.get(previousFileId) issued; updatedFiles[0].id of an
\* empty updatedFiles throws and the catch reports it.  Deleting an inactive
\* file: setFiles(updatedFiles) and saveMetaToDB is issued.
DeleteMeta(i) ==
  /\ UNCHANGED <<events, userWaits>>
  /\ ops[i].kind = "delete" /\ ops[i].pc = "meta"
  /\ LET history == Without(ops[i].meta.history, ops[i].fileId)
         updatedFiles == WithoutFile(ops[i].files, ops[i].fileId)
     IN IF ops[i].activeFileId = ops[i].fileId
        THEN IF Len(history) = 0 /\ Len(updatedFiles) = 0
             THEN /\ alert' = DeleteFailedAlert
                  /\ ops' = [ops EXCEPT ![i] = IdleOp]
                  /\ UNCHANGED <<files, activeFileId, editor, crashed, dbMeta>>
             ELSE /\ ops' = [ops EXCEPT ![i].pc = "prev", ![i].history = history,
                                        ![i].previousFileId = previousFileId(history, updatedFiles),
                                        ![i].file = DbGet(previousFileId(history, updatedFiles))]
                  /\ alert' = ""
                  /\ UNCHANGED <<files, activeFileId, editor, crashed, dbMeta>>
        ELSE /\ Commit(updatedFiles, activeFileId)
             /\ dbMeta' = FileMeta(ops[i].activeFileId, history, Ids(updatedFiles))
             /\ ops' = [ops EXCEPT ![i].pc = "del"]
             /\ alert' = ""
  /\ UNCHANGED <<db, debounceTimer, dragFrom, initPc, dbFiles>>

\* the replacement's record resolves: setActiveFileId, setFiles, then
\* model.setValue(previousFile.content) on the mounted editor, which throws
\* when the store had no such record; otherwise saveMetaToDB is issued
DeletePrev(i) ==
  /\ UNCHANGED <<events, userWaits>>
  /\ ops[i].kind = "delete" /\ ops[i].pc = "prev"
  /\ LET updatedFiles == WithoutFile(ops[i].files, ops[i].fileId)
         prev == ops[i].previousFileId
         throws == editor # NoEditor /\ ops[i].file = Undefined
     IN /\ Commit(updatedFiles, prev)
        /\ IF throws
           THEN /\ alert' = DeleteFailedAlert
                /\ ops' = [ops EXCEPT ![i] = IdleOp]
                /\ UNCHANGED dbMeta
           ELSE /\ alert' = ""
                /\ dbMeta' = FileMeta(prev, Append(Without(ops[i].history, prev), prev),
                                      Ids(updatedFiles))
                /\ ops' = [ops EXCEPT ![i].pc = "del"]
  /\ UNCHANGED <<db, debounceTimer, dragFrom, initPc, dbFiles>>

\* the save resolves: deleteStore.delete(fileId)
DeleteStore(i) ==
  /\ UNCHANGED <<events, userWaits>>
  /\ ops[i].kind = "delete" /\ ops[i].pc = "del"
  /\ dbFiles' = DbDelete(ops[i].fileId)
  /\ ops' = [ops EXCEPT ![i] = IdleOp]
  /\ alert' = ""
  /\ UNCHANGED <<files, activeFileId, db, editor, debounceTimer, dragFrom,
                 initPc, crashed, dbMeta>>

(* ------------------------------- reload -------------------------------- *)
\* the page is reloaded (at any moment, also during initialization): the
\* component state, the timer and the handlers in flight are gone, the
\* database stays
Reload ==
  /\ UserMay
  /\ dragFrom = NoDrag
  /\ UNCHANGED userWaits
  /\ events' = events + 1
  /\ files' = <<>>
  /\ activeFileId' = NoId
  /\ db' = FALSE
  /\ editor' = NoEditor
  /\ debounceTimer' = NoTimer
  /\ dragFrom' = NoDrag
  /\ ops' = [i \in 1..MaxOps |-> IdleOp]
  /\ initPc' = "open"
  /\ crashed' = FALSE
  /\ alert' = ""
  /\ UNCHANGED <<dbFiles, dbMeta>>

Next ==
  \/ InitOpen \/ InitFiles \/ InitSeedFile \/ InitSeedMeta
  \/ \E n \in Names : AddDuplicate(n) \/ AddNewFile(n)
  \/ \E v \in Contents : EditorChange(v)
  \/ TimerFire
  \/ FormatCode
  \/ \E i \in 1..MaxOps : FormatDone(i)
  \/ \E n \in Names : HandleTabClick(n)
  \/ \E i \in 1..MaxOps : SwitchLoaded(i) \/ SwitchMeta(i) \/ SwitchDone(i)
  \/ \E k \in 0..(MaxFiles - 1) : DragStart(k) \/ HandleTabDrop(k)
  \/ \E n \in Names : DeleteLast(n) \/ DeleteFile(n)
  \/ \E i \in 1..MaxOps : DeleteMeta(i) \/ DeletePrev(i) \/ DeleteStore(i)
  \/ Reload

\* the user waits for a handler to finish before the next event
Spec == Init /\ [][Next]_vars

\* the user acts at any moment, also while handlers are suspended at an await
SpecAsync == InitAsync /\ [][Next]_vars

(* --------------------------- failing requests --------------------------- *)
\* An IndexedDB request may fail (request.onerror, or db.transaction
\* throwing): the promise of the helper rejects.  A rejection inside a try
\* reaches the handler's catch and its alert; one that no catch receives is
\* an unhandled promise rejection, which alert records with this mark.
UnhandledRejection == "<unhandled promise rejection>"

\* addNewFile with a put that fails: the state is set, await saveFile rejects
AddNewFileFails(fileName) ==
  /\ UserMay
  /\ dragFrom = NoDrag
  /\ UNCHANGED userWaits
  /\ events' = events + 1
  /\ ~crashed
  /\ db
  /\ ~NameExists(files, fileName)
  /\ Len(files) < MaxFiles
  /\ Commit(Append(files, createNewFile(fileName)), fileName)
  /\ alert' = UnhandledRejection
  /\ UNCHANGED <<db, debounceTimer, dragFrom, ops, initPc, dbFiles, dbMeta>>

\* the timeout elapses and the put of saveFile(fileToSave) fails; the timer
\* callback does not await it
TimerFireFails ==
  /\ UNCHANGED <<events, userWaits>>
  /\ debounceTimer.pending /\ debounceTimer.db
  /\ debounceTimer' = NoTimer
  /\ alert' = UnhandledRejection
  /\ UNCHANGED <<files, activeFileId, db, editor, dragFrom, ops, initPc,
                 crashed, dbFiles, dbMeta>>

\* handleTabDrop with a saveMetaToDB that fails
HandleTabDropFails(toIndex) ==
  /\ UNCHANGED <<events, userWaits>>
  /\ ~crashed
  /\ dragFrom # NoDrag
  /\ toIndex \in 0..(Len(files) - 1)
  /\ db /\ ~HasUndefined(Splice(files, dragFrom, toIndex))
  /\ Commit(Splice(files, dragFrom, toIndex), activeFileId)
  /\ dragFrom' = NoDrag
  /\ alert' = UnhandledRejection
  /\ UNCHANGED <<db, debounceTimer, ops, initPc, dbFiles, dbMeta>>

\* handleTabClick: the store.get it awaits rejects, or the loadMetaFromDB, or
\* the saveMetaToDB issued when the metadata has resolved; the catch alerts
SwitchFails(i) ==
  /\ UNCHANGED <<events, userWaits>>
  /\ ops[i].kind = "switch" /\ ops[i].pc \in {"get", "meta"}
  /\ ops' = [ops EXCEPT ![i] = IdleOp]
  /\ alert' = SwitchFailedAlert
  /\ UNCHANGED <<files, activeFileId, db, editor, debounceTimer, dragFrom,
                 initPc, crashed, dbFiles, dbMeta>>

\* deleteFile: the loadMetaFromDB, the store.get or the deleteStore.delete
\* it awaits rejects and the catch alerts
DeleteFails(i) ==
  /\ UNCHANGED <<events, userWaits>>
  /\ ops[i].kind = "delete" /\ ops[i].pc \in {"meta", "prev", "del"}
  /\ ops' = [ops EXCEPT ![i] = IdleOp]
  /\ alert' = DeleteFailedAlert
  /\ UNCHANGED <<files, activeFileId, db, editor, debounceTimer, dragFrom,
                 initPc, crashed, dbFiles, dbMeta>>

\* deleteFile of an inactive file: setFiles(updatedFiles), then a
\* saveMetaToDB that fails; the catch alerts before the record is deleted
DeleteSaveFails(i) ==
  /\ UNCHANGED <<events, userWaits>>
  /\ ops[i].kind = "delete" /\ ops[i].pc = "meta"
  /\ ops[i].activeFileId # ops[i].fileId
  /\ Commit(WithoutFile(ops[i].files, ops[i].fileId), activeFileId)
  /\ ops' = [ops EXCEPT ![i] = IdleOp]
  /\ alert' = DeleteFailedAlert
  /\ UNCHANGED <<db, debounceTimer, dragFrom, initPc, dbFiles, dbMeta>>

NextFaulty ==
  \/ Next
  \/ \E n \in Names : AddNewFileFails(n)
  \/ TimerFireFails
  \/ \E k \in 0..(MaxFiles - 1) : HandleTabDropFails(k)
  \/ \E i \in 1..MaxOps : SwitchFails(i)
  \/ \E i \in 1..MaxOps : DeleteFails(i) \/ DeleteSaveFails(i)

\* the user waits for the handlers, and requests may fail
SpecFaulty == Init /\ [][NextFaulty]_vars

(* ============================== properties ============================== *)
IdSet(fs) == {fs[i].id : i \in 1..Len(fs)}

\* initializeEditor has set the registry
Initialized == initPc \in {"seedFile", "seedMeta", "done"}

InRegistry(fs, id) == \E i \in 1..Len(fs) : fs[i].id = id

NoDuplicates(s) == \A i, j \in 1..Len(s) : i # j => s[i] # s[j]

IsPermutationOf(s, ids) == NoDuplicates(s) /\ Range(s) = ids

\* C1: once initializeEditor has set the registry it never has zero files,
\* and a delete requested while exactly one file remains shows the
\* last-file alert and changes neither the registry, the active file, the
\* persisted metadata nor the stored records.
C1_RegistryNeverEmpty ==
  /\ [](Initialized => Len(files) >= 1)
  /\ [][((\E n \in Names : DeleteLast(n) \/ DeleteFile(n)) /\ Len(files) = 1)
          => (alert' = LastFileAlert /\ UNCHANGED <<files, activeFileId, dbMeta, dbFiles>>)]_vars

C1_LastDeleteRejected ==
  Initialized /\ Len(files) = 1 /\ alert = LastFileAlert /\ events > 0

\* C2: after a create-file, a reorder-tabs or a completed delete-file the
\* persisted fileOrder is a permutation of the ids of the registry.
C2_FileOrderIsPermutation ==
  [][(db /\ ((\E n \in Names : AddNewFile(n))
             \/ (\E k \in 0..(MaxFiles - 1) : HandleTabDrop(k))
             \/ (\E i \in 1..MaxOps : DeleteStore(i))))
       => IsPermutationOf(dbMeta'.fileOrder, IdSet(files'))]_vars

C4_ReplacementInRegistry ==
  [][\A i \in 1..MaxOps :
       (DeletePrev(i) /\ ~crashed) =>
         /\ activeFileId' \in IdSet(files') /\ activeFileId' # ops[i].fileId
         /\ dbMeta'.activeFileId \in IdSet(files') /\ dbMeta'.activeFileId # ops[i].fileId]_vars

\* the three-tier rule as the specification words it
ThreeTierReplacement(history, deletedId, remainingIds) ==
  LET others == Without(history, deletedId)
  IN IF Len(history) >= 2 /\ history[Len(history)] = deletedId
        /\ history[Len(history) - 1] # deletedId
     THEN history[Len(history) - 1]
     ELSE IF Len(others) >= 1 THEN others[Len(others)]
     ELSE remainingIds[1]

\* C5: the replacement for a deleted active file is the entry of history
\* accessed immediately before it when it is the most recent entry, else the
\* most recent other entry, else the first remaining file.
C5_ThreeTierRule ==
  [][\A i \in 1..MaxOps :
       (DeleteMeta(i) /\ ops'[i].pc = "prev") =>
         ops'[i].previousFileId =
           ThreeTierReplacement(ops[i].meta.history, ops[i].fileId,
                                Ids(WithoutFile(ops[i].files, ops[i].fileId)))]_vars

\* C6: create-file(name) appends the empty file, makes it active in memory
\* and in the persisted metadata, and puts it last in the persisted history
\* and the persisted fileOrder.
C6_CreateRecordsAccess ==
  [][\A n \in Names :
       (AddNewFile(n) /\ db) =>
         /\ files' = Append(files, createNewFile(n))
         /\ activeFileId' = n
         /\ dbMeta'.activeFileId = n
         /\ Len(dbMeta'.history) >= 1 /\ dbMeta'.history[Len(dbMeta'.history)] = n
         /\ Len(dbMeta'.fileOrder) >= 1 /\ dbMeta'.fileOrder[Len(dbMeta'.fileOrder)] = n]_vars

\* C7: the ids of the registry are pairwise distinct, and New File with a
\* name that is in the registry shows the duplicate alert and changes
\* neither registry, active file, metadata nor store; the registry the check
\* reads is updated in the event of the first invocation, before its put
\* has completed.
C7_DistinctIds ==
  /\ [](\A i, j \in 1..Len(files) : i # j => files[i].id # files[j].id)
  /\ [][\A n \in Names :
          (InRegistry(files, n) /\ (AddDuplicate(n) \/ AddNewFile(n)))
          => (alert' = DuplicateAlert /\ UNCHANGED <<files, activeFileId, dbMeta, dbFiles>>)]_vars

C7_DuplicateRejected ==
  /\ alert = DuplicateAlert
  /\ Len(files) >= 2
  /\ \E i \in 1..MaxOps : ops[i] # IdleOp

\* C8: with initialization done and no handler in flight, the persisted
\* history has no duplicates, holds only ids of the registry and is no longer
\* than the registry; and the history a switch saves ends with the file
\* switched to, which occurs in it once.
C8_HistoryWellFormed ==
  /\ []((initPc = "done" /\ ~crashed /\ Quiet /\ dbMeta.present) =>
          /\ NoDuplicates(dbMeta.history)
          /\ Range(dbMeta.history) \subseteq IdSet(files)
          /\ Len(dbMeta.history) <= Len(files))
  /\ [][\A i \in 1..MaxOps :
          SwitchMeta(i) =>
            /\ Len(dbMeta'.history) >= 1
            /\ dbMeta'.history[Len(dbMeta'.history)] = ops[i].fileId
            /\ Cardinality({k \in 1..Len(dbMeta'.history) :
                              dbMeta'.history[k] = ops[i].fileId}) = 1]_vars

\* C9: a debounced write that is pending for a file of the registry stays
\* pending for that file until the store holds its record, also after the
\* user has switched to another tab (the persisted history then ends with
\* the active file, after an earlier one) and edits there.
C9_PendingWriteNotLost ==
  [][(/\ debounceTimer.pending /\ debounceTimer.db
      /\ debounceTimer.file.id \in IdSet(files')
      /\ Len(dbMeta.history) >= 2
      /\ dbMeta.history[Len(dbMeta.history)] = activeFileId)
       => \/ debounceTimer'.pending /\ debounceTimer'.file.id = debounceTimer.file.id
          \/ debounceTimer.file \in dbFiles']_vars

\* C10: a name that is neither in the registry nor in the store gets a
\* store record only in a step that puts it into the registry (New File or
\* the seeding of the default file).
C10_DeletedIsTerminal ==
  [][\A n \in Names :
       (~InRegistry(files, n) /\ ~DbHas(n) /\ (\E r \in dbFiles' : r.id = n))
       => InRegistry(files', n)]_vars

\* C11: when the format of the active file succeeds with a non-empty text,
\* the in-memory content of that file becomes the formatted text and a
\* debounced write of the formatted text is pending for it, as after a
\* manual edit.
C11_FormatTakesEditPath ==
  [][\A i \in 1..MaxOps :
       (/\ FormatDone(i) /\ ~crashed /\ db
        /\ ops[i].fileId = activeFileId /\ InRegistry(files, activeFileId)
        /\ prettierFormat(ops[i].file.content, parserOf(ops[i].file.name))
              \notin {FormatError, ""})
       => /\ ActiveFileOf(files', activeFileId).content =
               prettierFormat(ops[i].file.content, parserOf(ops[i].file.name))
          /\ debounceTimer'.pending
          /\ debounceTimer'.file.id = activeFileId
          /\ debounceTimer'.file.content =
               prettierFormat(ops[i].file.content, parserOf(ops[i].file.name))]_vars

\* C12: when the formatter rejects the content of the active file the user
\* gets the format alert, and the registry, the stored records, the
\* metadata and the pending write are what they were.
C12_FormatErrorChangesNothing ==
  [][\A i \in 1..MaxOps :
       (FormatDone(i) /\ ops[i].file.content = "(")
       => /\ alert' = FormatAlert
          /\ UNCHANGED <<files, activeFileId, editor, dbFiles, dbMeta, debounceTimer>>]_vars

\* the formatter has just rejected the text of the active file, whose edit
\* is still waiting in the debounce timer
C12_FormatRejected ==
  /\ alert = FormatAlert
  /\ HasActiveFile(files, activeFileId)
  /\ ActiveFileOf(files, activeFileId).content = "("
  /\ debounceTimer.pending /\ debounceTimer.file.content = "("

\* C13: whenever a store request fails inside create-file, switch-tab,
\* delete-tab, reorder-tabs or the debounced write, the user gets an alert
\* and no rejection is left unhandled.
C13_StoreFailuresAreReported ==
  [][(\/ \E n \in Names : AddNewFileFails(n)
      \/ TimerFireFails
      \/ \E k \in 0..(MaxFiles - 1) : HandleTabDropFails(k)
      \/ \E i \in 1..MaxOps : SwitchFails(i)
      \/ \E i \in 1..MaxOps : DeleteFails(i) \/ DeleteSaveFails(i))
       => alert' \in {SwitchFailedAlert, DeleteFailedAlert}]_vars

\* C14: a record that is put is in the store as it was given, and an
\* initialization against a store that holds files loads exactly the stored
\* records (same id, name, content and language), seeds nothing and writes
\* neither a record nor the metadata.
C14_SaveLoadRoundTrip ==
  [][/\ (TimerFire /\ debounceTimer.db) => debounceTimer.file \in dbFiles'
     /\ \A n \in Names : (AddNewFile(n) /\ db) => createNewFile(n) \in dbFiles'
     /\ (InitFiles /\ dbFiles # {})
          => /\ {files'[i] : i \in 1..Len(files')} = dbFiles
             /\ Len(files') = Cardinality(dbFiles)
             /\ initPc' = "done"
             /\ UNCHANGED <<dbFiles, dbMeta>>]_vars

\* the registry was loaded from the store after a reload: the file that the
\* saved fileOrder does not list comes first, it is not the active one and
\* it holds the text that was saved for it while it was
C14_ReloadedSavedText ==
  /\ initPc = "done" /\ db
  /\ Len(files) = 2 /\ Len(dbMeta.fileOrder) = 1
  /\ files[1].id \notin Range(dbMeta.fileOrder)
  /\ files[1].content = "x" /\ files[1] \in dbFiles
  /\ files[2] \in dbFiles /\ activeFileId = files[2].id

C16_ReorderChangesOnlyOrder ==
  [][\A k \in 0..(MaxFiles - 1) :
       (HandleTabDrop(k) /\ db /\ dbMeta.present /\ dragFrom < Len(files))
       => /\ dbMeta'.history = dbMeta.history
          /\ dbMeta'.activeFileId = dbMeta.activeFileId
          /\ activeFileId' = activeFileId
          /\ {files'[i] : i \in 1..Len(files')} = {files[i] : i \in 1..Len(files)}
          /\ UNCHANGED dbFiles]_vars

\* C17: a drop whose dragged index lies outside the registry, here because
\* a delete has taken a file out of the registry since the drag started,
\* changes neither the registry nor the persisted metadata and puts nothing
\* that is not a file into the tab order.
C17_OutOfRangeRejected ==
  [][\A k \in 0..(MaxFiles - 1) :
       (/\ HandleTabDrop(k) /\ db /\ dragFrom >= Len(files)
        /\ \E i \in 1..MaxOps : ops[i].kind = "delete" /\ ops[i].pc = "del")
       => /\ UNCHANGED <<files, dbMeta>>
          /\ ~HasUndefined(files')]_vars

\* C18: every edit of the active file, the empty text included, sets the
\* in-memory content to the value typed and leaves exactly one pending
\* write, for that file and with that value.
C18_EditSchedulesLatestValue ==
  [][\A v \in Contents :
       (EditorChange(v) /\ db)
       => /\ ActiveFileOf(files', activeFileId).content = v
          /\ debounceTimer'.pending
          /\ debounceTimer'.file.id = activeFileId
          /\ debounceTimer'.file.content = v]_vars

\* C19: once initialization is done, the file that a switch in flight has
\* made the active one is a file of the registry, also when a delete that
\* was started from the same render interleaves with it; and when no
\* handler is in flight the persisted activeFileId is the id of a file of
\* the registry.
C19_ActiveFileExists ==
  /\ []((/\ initPc = "done" /\ ~crashed
          /\ \E i \in 1..MaxOps : /\ ops[i].kind = "switch"
                                   /\ ops[i].pc \in {"meta", "save"}
                                   /\ ops[i].fileId = activeFileId)
         => activeFileId \in IdSet(files))
  /\ []((initPc = "done" /\ ~crashed /\ Quiet /\ dbMeta.present)
          => dbMeta.activeFileId \in IdSet(files))

\* C20: once initialization is done, whenever no handler is in flight and
\* no debounced write is pending, the ids of the stored file records are
\* the ids of the registry.
C20_RegistryMatchesStore ==
  (initPc = "done" /\ ~crashed /\ Quiet /\ ~debounceTimer.pending)
    => {r.id : r \in dbFiles} = IdSet(files)

====
